---- MODULE Spec2Model ----
(***************************************************************************)
(* Model of the device-side streaming client, DeviceReader, of             *)
(* src/reader.cpp (lines 19-312: the TCP variant with retry, pacing and    *)
(* the drop policy).                                                       *)
(*                                                                         *)
(* The single control loop of DeviceReader::run is cut at the three points *)
(* where it observes the outside world: the non-blocking receive (pc =     *)
(* "check"), the clock sample with the tick decision (pc = "pace") and the *)
(* sleep with the two exit tests (pc = "exit").  The remote service acts   *)
(* between these points through the sockets only.                          *)
(*                                                                         *)
(* Time is counted in abstract units: TickPeriod units stand for the 1000  *)
(* ms of line 240, WatchdogLimit units for the 60 s of line 278, and one   *)
(* loop iteration (whose sleep of line 267 makes it take time) lasts       *)
(* between 1 and MaxStep units.                                            *)
(*                                                                         *)
(* Strings are sequences of tokens; the token KEY stands for the 15        *)
(* characters "session_id": " and QUOTE for a double quote.                *)
(***************************************************************************)
EXTENDS Integers, Sequences, FiniteSets, TLC

VARIABLES
    pc,                  \* position of the process: check, pace, exit, done, exited
    exit_reason,         \* which break left the loop: none, drain, watchdog
    stream_files,        \* std::vector<std::string> stream_files (sorted names)
    session_id,          \* std::string session_id (token sequence, <<>> = empty)
    localizer_ready,     \* bool localizer_ready
    current_frame_index, \* int current_frame_index (0-based)
    init_map_requested,  \* bool init_map_requested
    init_map_sock,       \* int init_map_sock (-1 or a handle)
    fetch_gps_sock,      \* int fetch_gps_sock (-1 or a handle, stale after close)
    since_last,          \* now - last_frame_time at the last clock sample
    started,             \* the static start_time of run() has been initialised
    elapsed,             \* now - start_time at the last clock sample
    socks,               \* every socket the process created, by handle
    listening,           \* remote: which endpoint accepts connections
    log,                 \* contents of LOG_FILE, one record per line
    remote,              \* history: how the remote has behaved so far:
                         \* prompt, raced (a response came between a poll and
                         \* the tick after it) or faulty
    exit_status,         \* status the process ended with, NONE while it runs
    enter_pressed        \* the operator has pressed ENTER in the reader window

vars == <<pc, exit_reason, stream_files, session_id, localizer_ready,
          current_frame_index, init_map_requested, init_map_sock,
          fetch_gps_sock, since_last, started, elapsed, socks, listening,
          log, remote, exit_status, enter_pressed>>

----------------------------------------------------------------------------
(* Bounds of the model *)

MaxFrames == 3
MaxStep == 2
TickPeriod == 2
WatchdogLimit == 7

\* A socket is created only at a tick, and no more ticks than this fit in
\* a run that the watchdog ends; the cap keeps the state space finite when
\* the loop is altered so that it never ends.
MaxSocks == 1 + ((WatchdogLimit + 2 * MaxStep) \div TickPeriod)

\* Longest request handed to the framing of sendFetchGpsRequest
MaxPayload == 10050

----------------------------------------------------------------------------
(* Strings *)

KEY == "KEY"
QUOTE == "Q"
NPOS == 0

Min(a, b) == IF a < b THEN a ELSE b

\* std::string::find(token, from), 1-based, NPOS when absent
Find(s, tok, from) ==
    LET hits == {i \in from..Len(s) : s[i] = tok}
    IN  IF hits = {} THEN NPOS
        ELSE CHOOSE i \in hits : \A j \in hits : i <= j

\* The value session_id holds after lines 138-149 ran on response
ParseSessionId(response, old) ==
    LET start == Find(response, KEY, 1)
    IN  IF start = NPOS THEN old
        ELSE LET end == Find(response, QUOTE, start + 1)
             IN  IF end = NPOS THEN old
                 ELSE SubSeq(response, start + 1, end - 1)

\* What the remote may write on the init channel
InitResponses ==
    { <<KEY, "a", QUOTE>>,
      <<"x", KEY, "b", QUOTE, "x">>,
      <<KEY, QUOTE>>,
      <<KEY, "a">>,
      <<"x", QUOTE>> }

----------------------------------------------------------------------------
(* Frame catalog *)

JPG == "jpg"
DirEntries ==
    { [name |-> n, ext |-> JPG] : n \in 1..MaxFrames } \cup
    { [name |-> MaxFrames + 1, ext |-> "png"] }

RECURSIVE SortNames(_)
SortNames(S) ==
    IF S = {} THEN <<>>
    ELSE LET m == CHOOSE x \in S : \A y \in S : x <= y
         IN  <<m>> \o SortNames(S \ {m})

\* loadStreamFiles: keep the .jpg entries, sort ascending by name
loadStreamFiles(dir) == SortNames({e.name : e \in {d \in dir : d.ext = JPG}})

----------------------------------------------------------------------------
(* Sockets and log records *)

NoRx == [st |-> "none", text |-> <<>>, gps |-> 0]

\* Characters are one-character strings: the digits and the space
Digits == <<"0", "1", "2", "3", "4", "5", "6", "7", "8", "9">>
SPACE == " "

\* std::to_string of a non-negative integer
RECURSIVE to_string(_)
to_string(n) ==
    IF n < 10 THEN <<Digits[n + 1]>>
    ELSE to_string(n \div 10) \o <<Digits[(n % 10) + 1]>>

\* std::string::resize(n, c): cut to n characters, or fill up with c at the end
Resize(s, n, c) ==
    IF Len(s) >= n THEN SubSeq(s, 1, n)
    ELSE s \o [i \in 1..(n - Len(s)) |-> c]

\* the 4 of lines 188 and 189
PREFIX_LEN == 4

\* Variant of SizePrefix that sends the digits as they are
SizePrefix_NoResize(len) == to_string(len)

\* size_str of lines 187-188
SizePrefix(len) == Resize(to_string(len), PREFIX_LEN, SPACE)

\* What goes onto the socket for a request of len bytes: the bytes sent
\* before the JSON text, and the length of the JSON text
NoWire == [prefix |-> <<>>, len |-> 0]
FetchWire(len) == [prefix |-> SizePrefix(len), len |-> len]
InitWire(len) == [prefix |-> <<>>, len |-> len]

\* request.length() of line 174: {"session_id":"<sid>","image_path":"<path>"}
FetchRequestLen(sid_len, path_len) == 15 + sid_len + 16 + path_len + 2

\* length of stream_files[frame]: the name n stands for data/stream/<n>.jpg
ImagePathLen(frame) == 12 + Len(to_string(stream_files[frame + 1])) + 4

\* request.length() of line 87 with the coordinates of lines 294-296:
\* {"lat": 50.416200,"lng": 30.890600,"meters": 1000,"mode": "device"}
InitRequestLen == 1 + (7 + 9) + 1 + (7 + 9) + 1 + (10 + 4) + 1 + 16 + 1

Sock(kind, frame, connected, sid, wire) ==
    [kind |-> kind, frame |-> frame, connected |-> connected,
     open |-> connected, closes |-> IF connected THEN 0 ELSE 1,
     sid |-> sid, rx |-> NoRx, wire |-> wire]

\* the socket of a request, and what was sent on it when the connect succeeded
NewSock(kind, frame, connected, sid) ==
    Sock(kind, frame, connected, sid,
         IF ~connected THEN NoWire
         ELSE IF kind = "fetch"
         THEN FetchWire(FetchRequestLen(Len(sid), ImagePathLen(frame)))
         ELSE InitWire(InitRequestLen))

\* close(fd)
Close(table, h) ==
    IF h \in DOMAIN table
    THEN [table EXCEPT ![h].open = FALSE, ![h].closes = @ + 1]
    ELSE table

LogLine(kind, index, id, response) ==
    [kind |-> kind, index |-> index, id |-> id, response |-> response]

\* FetchFrame exchanges that were sent and whose channel is not closed
Outstanding ==
    {h \in DOMAIN socks : socks[h].kind = "fetch" /\ socks[h].connected
                          /\ socks[h].open}

Running == pc \in {"check", "pace", "exit"}

\* exit statuses: main returns 0 (line 311); an exception that leaves main
\* ends the process through std::terminate and abort, which the shell
\* reports as 128 + SIGABRT
NONE == -1
EXIT_OK == 0
ABORTED == 134

----------------------------------------------------------------------------
Init ==
    /\ pc = "check"
    /\ exit_reason = "none"
    /\ \E dir \in SUBSET DirEntries : stream_files = loadStreamFiles(dir)
    /\ session_id = <<>>
    /\ localizer_ready = FALSE
    /\ current_frame_index = 0
    /\ init_map_requested = FALSE
    /\ init_map_sock = -1
    /\ fetch_gps_sock = -1
    /\ since_last = 0
    /\ started = FALSE
    /\ elapsed = 0
    /\ socks = <<>>
    /\ listening \in [{"init", "fetch"} -> BOOLEAN]
    /\ log = <<LogLine("Started", -1, <<>>, 0)>>
    /\ remote = "prompt"
    /\ exit_status = NONE
    /\ enter_pressed = FALSE

----------------------------------------------------------------------------
(* The remote service, seen through the sockets *)

Connected(kind) ==
    {h \in DOMAIN socks : socks[h].kind = kind /\ socks[h].connected
                          /\ socks[h].open}

\* an endpoint starts or stops accepting connections
RemoteListen ==
    /\ Running
    /\ \E k \in {"init", "fetch"} :
         listening' = [listening EXCEPT ![k] = ~listening[k]]
    /\ UNCHANGED <<pc, exit_reason, stream_files, session_id, localizer_ready,
                   current_frame_index, init_map_requested, init_map_sock,
                   fetch_gps_sock, since_last, started, elapsed, socks, log,
                   remote, exit_status, enter_pressed>>

\* the remote writes a response on the init channel
RemoteInitResponse ==
    /\ Running
    /\ \E h \in Connected("init"), r \in InitResponses :
         /\ socks[h].rx.st = "none"
         /\ socks' = [socks EXCEPT ![h].rx = [st |-> "data", text |-> r, gps |-> 0]]
         /\ remote' = IF ParseSessionId(r, <<>>) # <<>> THEN remote ELSE "faulty"
    /\ UNCHANGED <<pc, exit_reason, stream_files, session_id, localizer_ready,
                   current_frame_index, init_map_requested, init_map_sock,
                   fetch_gps_sock, since_last, started, elapsed, listening, log,
                   exit_status, enter_pressed>>

\* the remote writes the GPS result of the image the request on h named
RemoteFetchResponse ==
    /\ Running
    /\ \E h \in Connected("fetch") :
         /\ socks[h].rx.st = "none"
         /\ socks' = [socks EXCEPT ![h].rx =
                        [st |-> "data", text |-> <<>>,
                         gps |-> stream_files[socks[h].frame + 1]]]
    /\ UNCHANGED <<pc, exit_reason, stream_files, session_id, localizer_ready,
                   current_frame_index, init_map_requested, init_map_sock,
                   fetch_gps_sock, since_last, started, elapsed, listening, log,
                   remote, exit_status, enter_pressed>>

\* the peer closes the connection (recv returns 0) or resets it (recv fails)
RemoteHangup ==
    /\ Running
    /\ \E h \in Connected("init") \cup Connected("fetch"), how \in {"eof", "err"} :
         /\ socks[h].rx.st = "none"
         /\ socks' = [socks EXCEPT ![h].rx = [st |-> how, text |-> <<>>, gps |-> 0]]
    /\ UNCHANGED <<pc, exit_reason, stream_files, session_id, localizer_ready,
                   current_frame_index, init_map_requested, init_map_sock,
                   fetch_gps_sock, since_last, started, elapsed, listening, log,
                   remote, exit_status, enter_pressed>>

----------------------------------------------------------------------------
(* DeviceReader *)

\* recv(fd, ..., MSG_DONTWAIT): what the call finds on the socket
Recv(h) ==
    IF h \in DOMAIN socks /\ socks[h].open THEN socks[h].rx
    ELSE [st |-> "err", text |-> <<>>, gps |-> 0]

\* Variant of checkInitMapResponse that leaves Readiness as it is when the
\* session id is read
checkInitMapResponse_NotReady ==
    LET got == Recv(init_map_sock)
        sid == ParseSessionId(got.text, session_id)
    IN  IF init_map_sock < 0 \/ got.st # "data"
        THEN UNCHANGED <<session_id, localizer_ready, init_map_sock, socks, log>>
        ELSE /\ session_id' = sid
             /\ IF sid # <<>>
                THEN /\ socks' = Close([socks EXCEPT ![init_map_sock].rx = NoRx],
                                       init_map_sock)
                     /\ log' = Append(log, LogLine("Session", -1, sid, 0))
                     /\ init_map_sock' = -1
                     /\ UNCHANGED localizer_ready
                ELSE /\ socks' = [socks EXCEPT ![init_map_sock].rx = NoRx]
                     /\ UNCHANGED <<localizer_ready, log, init_map_sock>>

\* Variant of checkInitMapResponse that takes any response for the session
\* being ready
checkInitMapResponse_AnyResponse ==
    LET got == Recv(init_map_sock)
        sid == ParseSessionId(got.text, session_id)
    IN  IF init_map_sock < 0 \/ got.st # "data"
        THEN UNCHANGED <<session_id, localizer_ready, init_map_sock, socks, log>>
        ELSE /\ session_id' = sid
             /\ localizer_ready' = TRUE
             /\ socks' = Close([socks EXCEPT ![init_map_sock].rx = NoRx], init_map_sock)
             /\ init_map_sock' = -1
             /\ UNCHANGED log

\* Variant of checkInitMapResponse that leaves the init channel open
checkInitMapResponse_KeepOpen ==
    LET got == Recv(init_map_sock)
        sid == ParseSessionId(got.text, session_id)
    IN  IF init_map_sock < 0 \/ got.st # "data"
        THEN UNCHANGED <<session_id, localizer_ready, init_map_sock, socks, log>>
        ELSE /\ session_id' = sid
             /\ socks' = [socks EXCEPT ![init_map_sock].rx = NoRx]
             /\ IF sid # <<>>
                THEN /\ localizer_ready' = TRUE
                     /\ log' = Append(log, LogLine("Session", -1, sid, 0))
                     /\ UNCHANGED init_map_sock
                ELSE UNCHANGED <<localizer_ready, log, init_map_sock>>

\* checkInitMapResponse, lines 116-162
checkInitMapResponse ==
    LET got == Recv(init_map_sock)
        sid == ParseSessionId(got.text, session_id)
    IN  IF init_map_sock < 0 \/ got.st # "data"
        THEN UNCHANGED <<session_id, localizer_ready, init_map_sock, socks, log>>
        ELSE /\ session_id' = sid
             /\ IF sid # <<>>
                THEN /\ localizer_ready' = TRUE
                     /\ socks' = Close([socks EXCEPT ![init_map_sock].rx = NoRx],
                                       init_map_sock)
                     /\ log' = Append(log, LogLine("Session", -1, sid, 0))
                     /\ init_map_sock' = -1
                ELSE /\ socks' = [socks EXCEPT ![init_map_sock].rx = NoRx]
                     /\ UNCHANGED <<localizer_ready, log, init_map_sock>>

\* Variant of checkFetchGpsResponse that gives up an exchange whose
\* connection was closed or reset and frees the localizer
checkFetchGpsResponse_GiveUp ==
    LET got == Recv(fetch_gps_sock)
    IN  IF got.st \in {"eof", "err"} /\ fetch_gps_sock \in Outstanding
        THEN /\ localizer_ready' = TRUE
             /\ socks' = Close(socks, fetch_gps_sock)
             /\ UNCHANGED <<session_id, init_map_sock, log>>
        ELSE IF got.st # "data"
        THEN UNCHANGED <<session_id, localizer_ready, init_map_sock, socks, log>>
        ELSE /\ localizer_ready' = TRUE
             /\ socks' = Close([socks EXCEPT ![fetch_gps_sock].rx = NoRx],
                               fetch_gps_sock)
             /\ log' = Append(log, LogLine("Frame", current_frame_index - 1,
                                           <<>>, got.gps))
             /\ UNCHANGED <<session_id, init_map_sock>>

\* Variant of checkFetchGpsResponse that logs what it has read and goes on
\* reading from the channel
checkFetchGpsResponse_ReadOn ==
    LET got == Recv(fetch_gps_sock)
    IN  IF got.st # "data"
        THEN UNCHANGED <<session_id, localizer_ready, init_map_sock, socks, log>>
        ELSE /\ log' = Append(log, LogLine("Frame", current_frame_index - 1,
                                           <<>>, got.gps))
             /\ UNCHANGED <<session_id, localizer_ready, init_map_sock, socks>>

\* Variant of checkFetchGpsResponse that takes the end of the stream
\* (recv returns 0) for the localizer being free again
checkFetchGpsResponse_ReadyOnEof ==
    LET got == Recv(fetch_gps_sock)
    IN  IF got.st = "eof"
        THEN /\ localizer_ready' = TRUE
             /\ UNCHANGED <<session_id, init_map_sock, socks, log>>
        ELSE IF got.st # "data"
        THEN UNCHANGED <<session_id, localizer_ready, init_map_sock, socks, log>>
        ELSE /\ localizer_ready' = TRUE
             /\ socks' = Close([socks EXCEPT ![fetch_gps_sock].rx = NoRx],
                               fetch_gps_sock)
             /\ log' = Append(log, LogLine("Frame", current_frame_index - 1,
                                           <<>>, got.gps))
             /\ UNCHANGED <<session_id, init_map_sock>>

\* Variant of checkFetchGpsResponse that reads a response only in the
\* iteration that follows a tick
checkFetchGpsResponse_OnTick ==
    LET got == Recv(fetch_gps_sock)
    IN  IF got.st # "data" \/ since_last # 0
        THEN UNCHANGED <<session_id, localizer_ready, init_map_sock, socks, log>>
        ELSE /\ localizer_ready' = TRUE
             /\ socks' = Close([socks EXCEPT ![fetch_gps_sock].rx = NoRx],
                               fetch_gps_sock)
             /\ log' = Append(log, LogLine("Frame", current_frame_index - 1,
                                           <<>>, got.gps))
             /\ UNCHANGED <<session_id, init_map_sock>>

\* Variant of checkFetchGpsResponse that logs current_frame_index itself
checkFetchGpsResponse_OffByOne ==
    LET got == Recv(fetch_gps_sock)
    IN  IF got.st # "data"
        THEN UNCHANGED <<session_id, localizer_ready, init_map_sock, socks, log>>
        ELSE /\ localizer_ready' = TRUE
             /\ socks' = Close([socks EXCEPT ![fetch_gps_sock].rx = NoRx],
                               fetch_gps_sock)
             /\ log' = Append(log, LogLine("Frame", current_frame_index,
                                           <<>>, got.gps))
             /\ UNCHANGED <<session_id, init_map_sock>>

\* checkFetchGpsResponse, lines 197-215
checkFetchGpsResponse ==
    LET got == Recv(fetch_gps_sock)
    IN  IF got.st # "data"
        THEN UNCHANGED <<session_id, localizer_ready, init_map_sock, socks, log>>
        ELSE /\ localizer_ready' = TRUE
             /\ socks' = Close([socks EXCEPT ![fetch_gps_sock].rx = NoRx],
                               fetch_gps_sock)
             /\ log' = Append(log, LogLine("Frame", current_frame_index - 1,
                                           <<>>, got.gps))
             /\ UNCHANGED <<session_id, init_map_sock>>

\* Variant of the poll that looks at the fetch channel while the localizer
\* is ready
CheckResponses_PollWhenReady ==
    /\ pc = "check"
    /\ pc' = "pace"
    /\ IF session_id = <<>> THEN checkInitMapResponse
       ELSE IF localizer_ready THEN checkFetchGpsResponse
       ELSE UNCHANGED <<session_id, localizer_ready, init_map_sock, socks, log>>
    /\ UNCHANGED <<exit_reason, stream_files, current_frame_index,
                   init_map_requested, fetch_gps_sock, since_last, started,
                   elapsed, listening, remote, exit_status, enter_pressed>>

\* run, lines 228-235: always check for responses first
CheckResponses ==
    /\ pc = "check"
    /\ pc' = "pace"
    /\ IF session_id = <<>> THEN checkInitMapResponse
       ELSE IF ~localizer_ready THEN checkFetchGpsResponse
       ELSE UNCHANGED <<session_id, localizer_ready, init_map_sock, socks, log>>
    /\ UNCHANGED <<exit_reason, stream_files, current_frame_index,
                   init_map_requested, fetch_gps_sock, since_last, started,
                   elapsed, listening, remote, exit_status, enter_pressed>>

\* Variant of sendInitMapRequest that marks the request as made before the
\* connect is tried
sendInitMapRequest_FlagEarly(sockok) ==
    LET closed == IF init_map_sock >= 0 THEN Close(socks, init_map_sock) ELSE socks
        h == Len(socks) + 1
    IN  IF ~sockok
        THEN /\ init_map_sock' = -1
             /\ socks' = closed
             /\ UNCHANGED init_map_requested
        ELSE /\ init_map_requested' = TRUE
             /\ IF ~listening["init"]
                THEN /\ socks' = Append(closed, NewSock("init", -1, FALSE, <<>>))
                     /\ init_map_sock' = -1
                ELSE /\ socks' = Append(closed, NewSock("init", -1, TRUE, <<>>))
                     /\ init_map_sock' = h

\* Variant of sendInitMapRequest that does not record that the request was
\* made
sendInitMapRequest_NoFlag(sockok) ==
    LET closed == IF init_map_sock >= 0 THEN Close(socks, init_map_sock) ELSE socks
        h == Len(socks) + 1
    IN  IF ~sockok
        THEN /\ init_map_sock' = -1
             /\ socks' = closed
             /\ UNCHANGED init_map_requested
        ELSE IF ~listening["init"]
        THEN /\ socks' = Append(closed, NewSock("init", -1, FALSE, <<>>))
             /\ init_map_sock' = -1
             /\ init_map_requested' = FALSE
        ELSE /\ socks' = Append(closed, NewSock("init", -1, TRUE, <<>>))
             /\ init_map_sock' = h
             /\ UNCHANGED init_map_requested

\* sendInitMapRequest, lines 86-114; sockok: socket() returned a descriptor
sendInitMapRequest(sockok) ==
    LET closed == IF init_map_sock >= 0 THEN Close(socks, init_map_sock) ELSE socks
        h == Len(socks) + 1
    IN  IF ~sockok
        THEN /\ init_map_sock' = -1
             /\ socks' = closed
             /\ UNCHANGED init_map_requested
        ELSE IF ~listening["init"]
        THEN /\ socks' = Append(closed, NewSock("init", -1, FALSE, <<>>))
             /\ init_map_sock' = -1
             /\ init_map_requested' = FALSE
        ELSE /\ socks' = Append(closed, NewSock("init", -1, TRUE, <<>>))
             /\ init_map_sock' = h
             /\ init_map_requested' = TRUE

\* Variant of sendFetchGpsRequest that does not mark the localizer busy
sendFetchGpsRequest_StaysReady ==
    LET h == Len(socks) + 1
    IN  IF current_frame_index >= Len(stream_files)
        THEN UNCHANGED <<current_frame_index, socks, fetch_gps_sock, localizer_ready>>
        ELSE /\ current_frame_index' = current_frame_index + 1
             /\ IF ~listening["fetch"]
                THEN /\ socks' = Append(socks, NewSock("fetch", current_frame_index,
                                                       FALSE, session_id))
                     /\ UNCHANGED <<fetch_gps_sock, localizer_ready>>
                ELSE /\ socks' = Append(socks, NewSock("fetch", current_frame_index,
                                                       TRUE, session_id))
                     /\ fetch_gps_sock' = h
                     /\ UNCHANGED localizer_ready

\* Variant of sendFetchGpsRequest that marks the localizer busy before the
\* connect is tried
sendFetchGpsRequest_BusyOnFail ==
    LET h == Len(socks) + 1
    IN  IF current_frame_index >= Len(stream_files)
        THEN UNCHANGED <<current_frame_index, socks, fetch_gps_sock, localizer_ready>>
        ELSE /\ current_frame_index' = current_frame_index + 1
             /\ localizer_ready' = FALSE
             /\ IF ~listening["fetch"]
                THEN /\ socks' = Append(socks, NewSock("fetch", current_frame_index,
                                                       FALSE, session_id))
                     /\ UNCHANGED fetch_gps_sock
                ELSE /\ socks' = Append(socks, NewSock("fetch", current_frame_index,
                                                       TRUE, session_id))
                     /\ fetch_gps_sock' = h

\* Variant of sendFetchGpsRequest that builds the request without the
\* session id
sendFetchGpsRequest_NoSession ==
    LET h == Len(socks) + 1
    IN  IF current_frame_index >= Len(stream_files)
        THEN UNCHANGED <<current_frame_index, socks, fetch_gps_sock, localizer_ready>>
        ELSE /\ current_frame_index' = current_frame_index + 1
             /\ IF ~listening["fetch"]
                THEN /\ socks' = Append(socks, NewSock("fetch", current_frame_index,
                                                       FALSE, <<>>))
                     /\ UNCHANGED <<fetch_gps_sock, localizer_ready>>
                ELSE /\ socks' = Append(socks, NewSock("fetch", current_frame_index,
                                                       TRUE, <<>>))
                     /\ fetch_gps_sock' = h
                     /\ localizer_ready' = FALSE

\* Variant of sendFetchGpsRequest that keeps the frame for a retry when the
\* connect fails
sendFetchGpsRequest_RetryOnFail ==
    LET h == Len(socks) + 1
    IN  IF current_frame_index >= Len(stream_files)
        THEN UNCHANGED <<current_frame_index, socks, fetch_gps_sock, localizer_ready>>
        ELSE IF ~listening["fetch"]
             THEN /\ socks' = Append(socks, NewSock("fetch", current_frame_index,
                                                    FALSE, session_id))
                  /\ UNCHANGED <<current_frame_index, fetch_gps_sock, localizer_ready>>
             ELSE /\ current_frame_index' = current_frame_index + 1
                  /\ socks' = Append(socks, NewSock("fetch", current_frame_index,
                                                    TRUE, session_id))
                  /\ fetch_gps_sock' = h
                  /\ localizer_ready' = FALSE

\* sendFetchGpsRequest, lines 164-195.  The two send calls of lines 189-190
\* are taken to succeed on a connected socket.
sendFetchGpsRequest ==
    LET h == Len(socks) + 1
    IN  IF current_frame_index >= Len(stream_files)
        THEN UNCHANGED <<current_frame_index, socks, fetch_gps_sock, localizer_ready>>
        ELSE /\ current_frame_index' = current_frame_index + 1
             /\ IF ~listening["fetch"]
                THEN /\ socks' = Append(socks, NewSock("fetch", current_frame_index,
                                                       FALSE, session_id))
                     /\ UNCHANGED <<fetch_gps_sock, localizer_ready>>
                ELSE /\ socks' = Append(socks, NewSock("fetch", current_frame_index,
                                                       TRUE, session_id))
                     /\ fetch_gps_sock' = h
                     /\ localizer_ready' = FALSE

\* Variant of the drop branch that gives up the exchange in flight
DropFrame_Cancel ==
    /\ log' = Append(log, LogLine("Dropped", current_frame_index, <<>>, 0))
    /\ current_frame_index' = current_frame_index + 1
    /\ socks' = Close(socks, fetch_gps_sock)
    /\ UNCHANGED <<fetch_gps_sock, localizer_ready>>

\* Variant of the drop branch that opens LOG_FILE without std::ios::app
DropFrame_Truncate ==
    /\ log' = <<LogLine("Dropped", current_frame_index, <<>>, 0)>>
    /\ current_frame_index' = current_frame_index + 1
    /\ UNCHANGED <<socks, fetch_gps_sock, localizer_ready>>

\* Variant of the drop branch that sends the frame although the localizer
\* is busy
DropFrame_Resend ==
    /\ current_frame_index' = current_frame_index + 1
    /\ socks' = Append(socks, NewSock("fetch", current_frame_index,
                                      listening["fetch"], session_id))
    /\ fetch_gps_sock' = IF listening["fetch"] THEN Len(socks) + 1
                         ELSE fetch_gps_sock
    /\ UNCHANGED <<log, localizer_ready>>

\* Variant of the drop branch that logs the drop and keeps the frame
DropFrame_Stall ==
    /\ log' = Append(log, LogLine("Dropped", current_frame_index, <<>>, 0))
    /\ UNCHANGED <<current_frame_index, socks, fetch_gps_sock, localizer_ready>>

\* run, lines 254-261: drop the current frame, the localizer is busy
DropFrame ==
    /\ log' = Append(log, LogLine("Dropped", current_frame_index, <<>>, 0))
    /\ current_frame_index' = current_frame_index + 1
    /\ UNCHANGED <<socks, fetch_gps_sock, localizer_ready>>

\* Variant of the test of line 249 that forgets the end of the catalog
HasNextFrame_Always == TRUE

\* current_frame_index < stream_files.size(), line 249
HasNextFrame == current_frame_index < Len(stream_files)

\* Variant of the tick that makes a new Init request when the connection of
\* the one under way was closed or reset
Tick_RetryOnHangup ==
    IF session_id = <<>>
    THEN /\ IF ~init_map_requested \/ Recv(init_map_sock).st \in {"eof", "err"}
            THEN \E sockok \in BOOLEAN : sendInitMapRequest(sockok)
            ELSE UNCHANGED <<socks, init_map_sock, init_map_requested>>
         /\ UNCHANGED <<current_frame_index, fetch_gps_sock, localizer_ready, log>>
    ELSE /\ IF HasNextFrame
            THEN IF localizer_ready
                 THEN /\ sendFetchGpsRequest
                      /\ UNCHANGED log
                 ELSE DropFrame
            ELSE UNCHANGED <<current_frame_index, socks, fetch_gps_sock,
                             localizer_ready, log>>
         /\ UNCHANGED <<init_map_sock, init_map_requested>>

\* run, lines 240-264: the decision taken when a tick is due
Tick ==
    IF session_id = <<>>
    THEN /\ IF ~init_map_requested
            THEN \E sockok \in BOOLEAN : sendInitMapRequest(sockok)
            ELSE UNCHANGED <<socks, init_map_sock, init_map_requested>>
         /\ UNCHANGED <<current_frame_index, fetch_gps_sock, localizer_ready, log>>
    ELSE /\ IF HasNextFrame
            THEN IF localizer_ready
                 THEN /\ sendFetchGpsRequest
                      /\ UNCHANGED log
                 ELSE DropFrame
            ELSE UNCHANGED <<current_frame_index, socks, fetch_gps_sock,
                             localizer_ready, log>>
         /\ UNCHANGED <<init_map_sock, init_map_requested>>

\* History: what the tick that fires now tells about the remote.  A fetch
\* exchange still open at a tick was not answered in time for the poll that
\* preceded the tick; its response may have arrived since that poll.
Judge ==
    IF session_id = <<>> THEN remote
    ELSE IF ~localizer_ready
         THEN IF Recv(fetch_gps_sock).st = "data" /\ remote # "faulty"
              THEN "raced" ELSE "faulty"
         ELSE IF HasNextFrame /\ ~listening["fetch"] THEN "faulty" ELSE remote

\* Variant of the tick test that lets every iteration be a tick
TickDue_EveryIteration(ms) == TRUE

\* since_last >= 1000, line 240
TickDue(ms) == ms >= TickPeriod

\* run, lines 237-264: sample the clock, act when a tick is due
Pace ==
    /\ pc = "pace"
    /\ pc' = "exit"
    /\ \E d \in 1..MaxStep :
         /\ elapsed' = IF started THEN Min(elapsed + d, WatchdogLimit + 1) ELSE 0
         /\ IF TickDue(since_last + d)
            THEN /\ Len(socks) < MaxSocks
                 /\ Tick
                 /\ remote' = Judge
                 /\ since_last' = 0
            ELSE /\ since_last' = since_last + d
                 /\ UNCHANGED <<current_frame_index, socks, fetch_gps_sock,
                                localizer_ready, log, init_map_sock,
                                init_map_requested, remote>>
    /\ UNCHANGED <<exit_reason, stream_files, session_id, started, listening,
                   exit_status, enter_pressed>>

\* Variant of the exit condition that asks for the cursor to be past the
\* catalog
CleanDrain_Strict ==
    /\ session_id # <<>>
    /\ current_frame_index > Len(stream_files)
    /\ localizer_ready

\* Variant of the exit condition that does not wait for the last response
CleanDrain_IgnoreBusy ==
    /\ session_id # <<>>
    /\ current_frame_index >= Len(stream_files)

\* the exit condition of line 270
CleanDrain ==
    /\ session_id # <<>>
    /\ current_frame_index >= Len(stream_files)
    /\ localizer_ready

\* Variant of the watchdog that measures from last_frame_time
WatchdogExpired_SinceLast == since_last > WatchdogLimit

\* elapsed > 60, line 278
WatchdogExpired == elapsed > WatchdogLimit

\* run, lines 266-281: sleep, then the two exits
ExitTest ==
    /\ pc = "exit"
    /\ IF CleanDrain
       THEN /\ pc' = "done"
            /\ exit_reason' = "drain"
            /\ UNCHANGED started
       ELSE /\ started' = TRUE
            /\ IF WatchdogExpired
               THEN /\ pc' = "done"
                    /\ exit_reason' = "watchdog"
               ELSE /\ pc' = "check"
                    /\ UNCHANGED exit_reason
    /\ UNCHANGED <<stream_files, session_id, localizer_ready, current_frame_index,
                   init_map_requested, init_map_sock, fetch_gps_sock, since_last,
                   elapsed, socks, listening, log, remote,
                   exit_status, enter_pressed>>

\* Variant of the end of main that reports a watchdog exit as a failure
Destructor_TimeoutFails ==
    /\ pc = "done"
    /\ pc' = "exited"
    /\ exit_status' = IF exit_reason = "watchdog" THEN 1 ELSE EXIT_OK
    /\ socks' = LET a == IF init_map_sock >= 0 THEN Close(socks, init_map_sock)
                         ELSE socks
                IN  IF fetch_gps_sock >= 0 THEN Close(a, fetch_gps_sock) ELSE a
    /\ UNCHANGED <<exit_reason, stream_files, session_id, localizer_ready,
                   current_frame_index, init_map_requested, init_map_sock,
                   fetch_gps_sock, since_last, started, elapsed, listening, log,
                   remote, enter_pressed>>

\* main, lines 308-311: run has returned, main returns 0 and ~DeviceReader
\* (lines 285-288) runs
Destructor ==
    /\ pc = "done"
    /\ pc' = "exited"
    /\ exit_status' = EXIT_OK
    /\ socks' = LET a == IF init_map_sock >= 0 THEN Close(socks, init_map_sock)
                         ELSE socks
                IN  IF fetch_gps_sock >= 0 THEN Close(a, fetch_gps_sock) ELSE a
    /\ UNCHANGED <<exit_reason, stream_files, session_id, localizer_ready,
                   current_frame_index, init_map_requested, init_map_sock,
                   fetch_gps_sock, since_last, started, elapsed, listening, log,
                   remote, enter_pressed>>

Next ==
    \/ CheckResponses
    \/ Pace
    \/ ExitTest
    \/ Destructor
    \/ RemoteListen
    \/ RemoteInitResponse
    \/ RemoteFetchResponse
    \/ RemoteHangup

Spec == Init /\ [][Next]_vars

\* The loop is a running thread: each of its steps is eventually taken
LiveSpec ==
    Spec /\ WF_vars(CheckResponses) /\ WF_vars(Pace) /\ WF_vars(ExitTest)
         /\ WF_vars(Destructor)

\* The framing of the requests on its own: one request, of any length up
\* to MaxPayload, is put on a socket the way lines 112 and 187-190 do it
FramingInit ==
    /\ pc = "framing"
    /\ exit_status = NONE
    /\ exit_reason = "none"
    /\ stream_files = <<>>
    /\ session_id = <<>>
    /\ localizer_ready = FALSE
    /\ current_frame_index = 0
    /\ init_map_requested = FALSE
    /\ init_map_sock = -1
    /\ fetch_gps_sock = -1
    /\ since_last = 0
    /\ started = FALSE
    /\ elapsed = 0
    /\ socks = <<>>
    /\ listening = [e \in {"init", "fetch"} |-> TRUE]
    /\ log = <<>>
    /\ remote = "prompt"
    /\ enter_pressed = FALSE

FrameFetchRequest ==
    /\ pc = "framing"
    /\ \E len \in 1..MaxPayload :
         socks' = <<Sock("fetch", 0, TRUE, <<>>, FetchWire(len))>>
    /\ pc' = "framed"
    /\ UNCHANGED <<exit_reason, stream_files, session_id, localizer_ready,
                   current_frame_index, init_map_requested, init_map_sock,
                   fetch_gps_sock, since_last, started, elapsed, listening,
                   log, remote, exit_status, enter_pressed>>

FrameInitRequest ==
    /\ pc = "framing"
    /\ \E len \in 1..MaxPayload :
         socks' = <<Sock("init", -1, TRUE, <<>>, InitWire(len))>>
    /\ pc' = "framed"
    /\ UNCHANGED <<exit_reason, stream_files, session_id, localizer_ready,
                   current_frame_index, init_map_requested, init_map_sock,
                   fetch_gps_sock, since_last, started, elapsed, listening,
                   log, remote, exit_status, enter_pressed>>

FramingNext == FrameFetchRequest \/ FrameInitRequest

FramingSpec == FramingInit /\ [][FramingNext]_vars

\* DeviceReader::DeviceReader when std::filesystem::directory_iterator throws
\* in loadStreamFiles (line 65): nothing catches the exception, so the
\* process is aborted inside the constructor; setupSockets has created no
\* socket and clearLogFile has not run, so LOG_FILE was not written
ConstructorThrows ==
    /\ pc = "aborted"
    /\ exit_status = ABORTED
    /\ exit_reason = "none"
    /\ stream_files = <<>>
    /\ session_id = <<>>
    /\ localizer_ready = FALSE
    /\ current_frame_index = 0
    /\ init_map_requested = FALSE
    /\ init_map_sock = -1
    /\ fetch_gps_sock = -1
    /\ since_last = 0
    /\ started = FALSE
    /\ elapsed = 0
    /\ socks = <<>>
    /\ listening \in [{"init", "fetch"} -> BOOLEAN]
    /\ log = <<>>
    /\ remote = "prompt"
    /\ enter_pressed = FALSE

\* main as run.sh starts it (lines 168-170: the command line is typed into
\* the reader window and ENTER is sent with it): the catalog directory is
\* readable or it is not
Launch == Init \/ ConstructorThrows

\* the operator presses ENTER in the reader window; reader.cpp never reads
\* its standard input
OperatorEnter ==
    /\ ~enter_pressed
    /\ enter_pressed' = TRUE
    /\ UNCHANGED <<pc, exit_reason, stream_files, session_id, localizer_ready,
                   current_frame_index, init_map_requested, init_map_sock,
                   fetch_gps_sock, since_last, started, elapsed, socks,
                   listening, log, remote, exit_status>>

MainNext == Next \/ OperatorEnter

\* The process from its launch, with the operator at the reader window
MainSpec == Launch /\ [][MainNext]_vars

----------------------------------------------------------------------------
(* Properties *)

FetchSocks == {h \in DOMAIN socks : socks[h].kind = "fetch"}
SentFetch == {h \in FetchSocks : socks[h].connected}
InitSocks == {h \in DOMAIN socks : socks[h].kind = "init"}
LogKind(k) == {i \in DOMAIN log : log[i].kind = k}

\* a step of run that creates a socket for a FetchFrame request
FetchAttempt ==
    /\ Len(socks') = Len(socks) + 1
    /\ socks'[Len(socks')].kind = "fetch"

\* a step of run in which a tick is due and the decision is taken
TickFires == pc = "pace" /\ pc' = "exit" /\ since_last' = 0

\* the catalog index of the image a response is about
IndexOf(name) == CHOOSE i \in 0..(Len(stream_files) - 1) : stream_files[i + 1] = name

\* the log of a run in which the first n frames were answered in turn
ExpectedLog(n) ==
    <<LogLine("Started", -1, <<>>, 0), LogLine("Session", -1, session_id, 0)>>
    \o [i \in 1..n |-> LogLine("Frame", i - 1, <<>>, stream_files[i])]

\* C1: single flight. In every reachable state at most one FetchFrame
\* exchange has been sent and not yet closed, and no step of the loop
\* executes sendFetchGpsRequest while such an exchange is outstanding.
C1_SingleFlight ==
    /\ [](Cardinality(Outstanding) <= 1)
    /\ [][FetchAttempt => Outstanding = {}]_vars

\* one exchange is outstanding, an earlier one was answered and closed, and a
\* frame was dropped in between
C1_Witness ==
    /\ Cardinality(Outstanding) = 1
    /\ \E h \in SentFetch : ~socks[h].open /\ socks[h].closes = 1
    /\ LogKind("Dropped") # {}

\* C2: the cursor starts at 0, stays within 0..N, moves only by steps of +1
\* and never moves again once it equals N.
C2_CursorMonotone ==
    /\ current_frame_index = 0
    /\ [](current_frame_index \in 0..Len(stream_files))
    /\ [][/\ current_frame_index' \in {current_frame_index, current_frame_index + 1}
          /\ current_frame_index = Len(stream_files)
               => current_frame_index' = current_frame_index]_vars

\* the cursor has reached the end of a full catalog through sends and drops,
\* and the run went on until the watchdog ended it
C2_Witness ==
    /\ Len(stream_files) = MaxFrames
    /\ current_frame_index = Len(stream_files)
    /\ LogKind("Dropped") # {}
    /\ LogKind("Frame") # {}
    /\ exit_reason = "watchdog"

\* C3: once the session identifier is set it never changes; from then on the
\* init channel is closed, init_map_sock is -1 and the log holds exactly one
\* session line.
C3_SessionImmutable ==
    /\ [](session_id # <<>> =>
            /\ init_map_sock = -1
            /\ Connected("init") = {}
            /\ Cardinality(LogKind("Session")) = 1
            /\ \A i \in LogKind("Session") : log[i].id = session_id)
    /\ [][session_id # <<>> => session_id' = session_id]_vars

\* the session was set after an init retry, in a run in which the remote
\* misbehaved, and the run went on to dispatch frames
C3_Witness ==
    /\ session_id = <<"b">>
    /\ remote = "faulty"
    /\ Cardinality(InitSocks) >= 2
    /\ current_frame_index > 0

\* C4: FetchFrame requests are created in strictly increasing catalog order,
\* each for an index of the catalog, no index twice (also after a failed
\* connect), and a dropped index is never the subject of a request.
C4_InOrderOnce ==
    /\ \A h \in FetchSocks : socks[h].frame \in 0..(Len(stream_files) - 1)
    /\ \A g, h \in FetchSocks : g < h => socks[g].frame < socks[h].frame
    /\ \A i \in LogKind("Dropped"), h \in FetchSocks : log[i].index # socks[h].frame
    /\ \A i, j \in LogKind("Dropped") : i < j => log[i].index < log[j].index

\* a request whose connect failed, a later request that was sent, and a drop
C4_Witness ==
    /\ \E g, h \in FetchSocks : g < h /\ ~socks[g].connected /\ socks[h].connected
    /\ LogKind("Dropped") # {}

\* C5: while a FetchFrame exchange is unanswered, every tick with a frame
\* left logs a drop of the current frame and advances the cursor by one
\* without sending anything, a request never names a frame of an earlier
\* request, and the loop still ends (or the exchange is answered).
C5_NoResponseNoDeadlock ==
    /\ [][(TickFires /\ Outstanding # {} /\ HasNextFrame) =>
            /\ current_frame_index' = current_frame_index + 1
            /\ socks' = socks
            /\ log' = Append(log, LogLine("Dropped", current_frame_index, <<>>, 0))]_vars
    /\ [][FetchAttempt =>
            \A h \in FetchSocks : socks[h].frame < socks'[Len(socks')].frame]_vars
    /\ (Outstanding # {}) ~> (Outstanding = {} \/ ~Running)

\* the request for frame 0 of a full catalog was never answered: the other
\* frames were dropped, the cursor reached the end and the run ended
C5_Witness ==
    /\ pc = "exited"
    /\ Len(stream_files) = MaxFrames
    /\ current_frame_index = Len(stream_files)
    /\ Cardinality(SentFetch) = 1
    /\ \A h \in SentFetch : socks[h].frame = 0 /\ socks[h].rx.st = "none"
    /\ LogKind("Frame") = {}
    /\ Cardinality(LogKind("Dropped")) = MaxFrames - 1

\* C6: every run ends, whatever the remote does, through one of the two exits.
C6_Terminates ==
    /\ <>(pc = "exited")
    /\ [](~Running => exit_reason \in {"drain", "watchdog"})

\* the run ended on the watchdog with the init request sent and no session
C6_Witness ==
    /\ pc = "exited"
    /\ exit_reason = "watchdog"
    /\ init_map_requested
    /\ session_id = <<>>

\* C7: the loop is left only by clean drain, in a state where the session is
\* set, the cursor is at the end, readiness is true and no exchange is
\* outstanding, or by the watchdog, when the bound has elapsed.
C7_TwoExits ==
    /\ Running <=> exit_reason = "none"
    /\ exit_reason \in {"none", "drain", "watchdog"}
    /\ exit_reason = "drain" =>
         /\ session_id # <<>>
         /\ current_frame_index = Len(stream_files)
         /\ localizer_ready
         /\ Outstanding = {}
    /\ exit_reason = "watchdog" => elapsed > WatchdogLimit /\ ~CleanDrain

\* clean drain after a run that saw a failed connect of a frame request and
\* sent another frame request
C7_Witness ==
    /\ exit_reason = "drain"
    /\ remote = "faulty"
    /\ \E h \in FetchSocks : ~socks[h].connected
    /\ \E h \in SentFetch : TRUE

\* C8: when the loop is left through the watchdog, the log holds exactly one
\* Timeout line.
C8_TimeoutLogged ==
    exit_reason = "watchdog" => Cardinality(LogKind("Timeout")) = 1

\* C9 as stated, with its premise read in the strictest way (the session was
\* set and every FetchFrame response was read by the poll that precedes the
\* next tick): the loop ends in clean drain with the log holding the session
\* line and the N frame results in order.
C9_RoundTrip ==
    (pc = "done" /\ session_id # <<>> /\ remote = "prompt") =>
        /\ exit_reason = "drain"
        /\ log = ExpectedLog(Len(stream_files))

\* C9 as amended: when the session was set and every FetchFrame response was
\* read by the poll that precedes the next tick, the log holds the session
\* line followed by the results of frames 0..k-1 in order and no drop; on
\* clean drain k = N, and a run that does not drain ends on the watchdog.
C9_RoundTripAmended ==
    (remote = "prompt" /\ session_id # <<>>) =>
        /\ \E k \in 0..Len(stream_files) : log = ExpectedLog(k)
        /\ exit_reason = "drain" => log = ExpectedLog(Len(stream_files))
        /\ ~Running => exit_reason \in {"drain", "watchdog"}

\* a full catalog answered promptly, ended in clean drain
C9_Witness ==
    /\ exit_reason = "drain"
    /\ remote = "prompt"
    /\ Len(stream_files) = MaxFrames
    /\ Cardinality(LogKind("Frame")) = MaxFrames

\* C10: a dropped index is never the index of a request that was sent, and
\* the response to frame i that is read after frame i+1 was dropped is
\* logged as the result of frame i.
C10_Backpressure ==
    /\ \A j \in LogKind("Dropped"), h \in SentFetch : log[j].index # socks[h].frame
    /\ \A k \in LogKind("Frame") :
         LET i == IndexOf(log[k].response)
         IN  (\E j \in 1..(k - 1) : log[j].kind = "Dropped" /\ log[j].index = i + 1)
               => log[k].index = i

\* a step of run that appends a line of the given kind to the log
Logs(kind) ==
    /\ Len(log') = Len(log) + 1
    /\ log'[Len(log')].kind = kind

\* C11: result indexing. Every step that appends a FrameResult line writes
\* the catalog index of the frame whose request was sent on the channel the
\* response was read from, whatever was dropped while it was outstanding.
C11_ResultIndex ==
    [][Logs("Frame") => log'[Len(log')].index = socks[fetch_gps_sock].frame]_vars

\* the log lines, FrameResult or FrameDropped, that carry catalog index i
Outcomes(i) ==
    {k \in LogKind("Frame") \cup LogKind("Dropped") : log[k].index = i}

\* C12: outcome accounting. When the loop has ended in clean drain, every
\* catalog index 0..N-1 is carried by exactly one log line, a FrameResult or
\* a FrameDropped.
C12_OutcomeAccounting ==
    exit_reason = "drain" =>
        \A i \in 0..(Len(stream_files) - 1) : Cardinality(Outcomes(i)) = 1

\* C13: handle lifetime. No handle is ever closed twice, and once the
\* process has ended every handle it opened has been closed exactly once.
C13_ClosedOnce ==
    /\ \A h \in DOMAIN socks : socks[h].closes <= 1
    /\ pc = "exited" => \A h \in DOMAIN socks : socks[h].closes = 1

\* a step of run that creates a socket for an Init request
InitAttempt ==
    /\ Len(socks') = Len(socks) + 1
    /\ socks'[Len(socks')].kind = "init"

\* the handshake is in NotStarted
NotStarted ==
    /\ session_id = <<>>
    /\ ~init_map_requested
    /\ init_map_sock = -1
    /\ Connected("init") = {}

\* C14: Init retry. A failed Init connect leaves the handshake in NotStarted
\* (flag false, no init socket open, session unset); while the handshake has
\* no request under way it is in NotStarted, and while it has one its socket
\* is open until the process ends; every tick taken in NotStarted makes a
\* fresh attempt (which creates a socket unless socket() itself fails); so
\* once the remote listens, a request is made unless the remote stops
\* listening or the loop ends first.
C14_InitRetry ==
    /\ [][InitAttempt /\ ~socks'[Len(socks')].connected => NotStarted']_vars
    /\ [](session_id = <<>> /\ ~init_map_requested => NotStarted)
    /\ [](pc # "exited" /\ session_id = <<>> /\ init_map_requested
             => init_map_sock \in Connected("init"))
    /\ [][TickFires /\ NotStarted => InitAttempt \/ (NotStarted' /\ UNCHANGED socks)]_vars
    /\ (Running /\ NotStarted /\ listening["init"])
         ~> (init_map_requested \/ ~listening["init"] \/ ~Running)

\* an Init connect failed and a later one succeeded
C14_Witness ==
    \E h1, h2 \in InitSocks :
        /\ h1 < h2
        /\ ~socks[h1].connected
        /\ socks[h2].connected

\* C15: Init single flight. At most one init channel is open in every
\* reachable state, and a step creates a socket for an Init request only
\* while Session is unset, no Init request is awaited and no init channel is
\* open.
C15_SingleInit ==
    /\ [](Cardinality(Connected("init")) <= 1)
    /\ [][InitAttempt => /\ session_id = <<>>
                         /\ ~init_map_requested
                         /\ Connected("init") = {}]_vars

\* a tick has just fired while the one Init request made so far is awaited
C15_Witness ==
    /\ pc = "exit"
    /\ since_last = 0
    /\ elapsed > TickPeriod
    /\ session_id = <<>>
    /\ init_map_requested
    /\ Len(socks) = 1
    /\ Connected("init") = {1}

\* a response without a usable session id: the key is absent, or no quote
\* follows it, or the quote follows it at once
Unusable(r) ==
    LET ks == {i \in DOMAIN r : r[i] = KEY}
    IN  \/ ks = {}
        \/ LET k == CHOOSE i \in ks : \A j \in ks : i <= j
           IN  \/ \A j \in (k + 1)..Len(r) : r[j] # QUOTE
               \/ (k < Len(r) /\ r[k + 1] = QUOTE)

\* a poll of the init channel that reads a response without usable session id
MalformedRead ==
    /\ pc = "check"
    /\ pc' = "pace"
    /\ session_id = <<>>
    /\ init_map_sock >= 0
    /\ Recv(init_map_sock).st = "data"
    /\ Unusable(Recv(init_map_sock).text)

\* C16: malformed Init response. A poll that reads an Init response without a
\* usable session_id leaves Session unset, Readiness false, the handshake
\* awaiting a response on the same, still open, channel, and the log as it
\* was; the loop goes on, and no FetchFrame is sent while Session is unset.
C16_MalformedInit ==
    /\ [][MalformedRead =>
            /\ session_id' = <<>>
            /\ localizer_ready' = FALSE
            /\ init_map_requested'
            /\ init_map_sock' = init_map_sock
            /\ socks'[init_map_sock].open
            /\ log' = log
            /\ Running']_vars
    /\ [](session_id = <<>> => FetchSocks = {})

\* an unusable Init response was written and has been read; the handshake
\* still awaits a response on the open channel
C16_Witness ==
    /\ pc = "pace"
    /\ remote = "faulty"
    /\ session_id = <<>>
    /\ ~localizer_ready
    /\ init_map_requested
    /\ init_map_sock \in Connected("init")
    /\ socks[init_map_sock].rx.st = "none"

\* C17: empty catalog. With N = 0 no FetchFrame socket is ever created and
\* no FrameResult or FrameDropped line is ever logged; once the session is
\* set, the loop does not come back to another poll: it leaves through the
\* clean-drain exit of the same iteration.
C17_EmptyCatalog ==
    Len(stream_files) = 0 =>
        /\ FetchSocks = {}
        /\ LogKind("Frame") = {}
        /\ LogKind("Dropped") = {}
        /\ session_id # <<>> => /\ pc # "check"
                                /\ ~Running => exit_reason = "drain"

\* the run with an empty catalog has ended in clean drain
C17_Witness ==
    /\ Len(stream_files) = 0
    /\ session_id # <<>>
    /\ exit_reason = "drain"
    /\ pc = "exited"

\* C18: exit behaviour. The process has status 0 exactly when it has ended
\* after the loop, which it leaves by clean drain or by the watchdog only;
\* when the catalog cannot be loaded it has ended with a non-zero status,
\* the loop has not started and no socket was created, so that no Init and
\* no FetchFrame request was sent; while it runs it has no status.
C18_ExitStatus ==
    /\ pc = "exited" <=> exit_status = EXIT_OK
    /\ pc = "exited" => exit_reason \in {"drain", "watchdog"}
    /\ pc = "aborted" => /\ exit_status \notin {NONE, EXIT_OK}
                         /\ ~started
                         /\ exit_reason = "none"
                         /\ socks = <<>>
    /\ pc \notin {"exited", "aborted"} => exit_status = NONE

\* the watchdog has ended the loop and the process has ended with status 0
C18_Witness ==
    /\ pc = "exited"
    /\ exit_reason = "watchdog"
    /\ exit_status = EXIT_OK

\* the number a sequence of digit characters denotes
RECURSIVE DecimalValue(_)
DecimalValue(s) ==
    IF s = <<>> THEN 0
    ELSE 10 * DecimalValue(SubSeq(s, 1, Len(s) - 1))
         + (CHOOSE d \in 0..9 : Digits[d + 1] = s[Len(s)])

IsDigits(s) == s # <<>> /\ \A i \in DOMAIN s : \E d \in 0..9 : s[i] = Digits[d + 1]
IsSpaces(s) == \A i \in DOMAIN s : s[i] = SPACE

\* spaces first, then the digits of len
LeftPadded(prefix, len) ==
    \E k \in 0..(Len(prefix) - 1) :
        /\ IsSpaces(SubSeq(prefix, 1, k))
        /\ IsDigits(SubSeq(prefix, k + 1, Len(prefix)))
        /\ DecimalValue(SubSeq(prefix, k + 1, Len(prefix))) = len

\* the digits of len first, then spaces
RightPadded(prefix, len) ==
    \E k \in 1..Len(prefix) :
        /\ IsDigits(SubSeq(prefix, 1, k))
        /\ IsSpaces(SubSeq(prefix, k + 1, Len(prefix)))
        /\ DecimalValue(SubSeq(prefix, 1, k)) = len

\* the requests of the given kind that were sent
SentWires(kind) ==
    {socks[h].wire : h \in {g \in DOMAIN socks : socks[g].kind = kind
                                                  /\ socks[g].connected}}

\* C19: framing as stated. Every FetchFrame request is preceded by exactly 4
\* bytes, the decimal digits of the payload's byte length left-padded with
\* spaces; an Init request is preceded by nothing.
C19_LeftPaddedPrefix ==
    /\ \A w \in SentWires("fetch") :
         Len(w.prefix) = PREFIX_LEN /\ LeftPadded(w.prefix, w.len)
    /\ \A w \in SentWires("init") : w.prefix = <<>>

\* C19, amended: every FetchFrame request is preceded by exactly 4 bytes
\* that start with a digit and are all digits and spaces; when the payload
\* is shorter than 10^4 bytes they are the decimal digits of its byte length
\* followed by spaces; an Init request is preceded by nothing.
C19_RightPaddedPrefix ==
    /\ \A w \in SentWires("fetch") :
         /\ Len(w.prefix) = PREFIX_LEN
         /\ IsDigits(<<w.prefix[1]>>)
         /\ \A i \in DOMAIN w.prefix : IsDigits(<<w.prefix[i]>>) \/ w.prefix[i] = SPACE
         /\ w.len < 10 ^ PREFIX_LEN => RightPadded(w.prefix, w.len)
    /\ \A w \in SentWires("init") : w.prefix = <<>>

\* a FetchFrame request of fewer than 100 bytes was sent: two digits, then
\* two spaces
C19_Witness ==
    \E w \in SentWires("fetch") :
        /\ w.len < 100
        /\ w.len >= 10
        /\ w.prefix[3] = SPACE
        /\ w.prefix[4] = SPACE

\* C20: key-press activation. As long as the operator has not pressed ENTER
\* in the reader window, no socket has been created, so that no Init and no
\* FetchFrame request has been sent.
C20_KeyPressActivation == ~enter_pressed => socks = <<>>

\* a tick at which a frame is due: Session is set and the cursor is inside
\* the catalog
FrameTick == TickFires /\ session_id # <<>> /\ current_frame_index < Len(stream_files)

\* C21: drop step. A tick with Session set, Cursor < N and Readiness false
\* creates no socket and leaves every socket as it is (nothing is sent, the
\* exchange in flight is neither closed nor cancelled), appends exactly one
\* FrameDropped line carrying the Cursor, advances the Cursor by one and
\* leaves Readiness, Session and the fetch channel unchanged.
C21_DropStep ==
    [][FrameTick /\ ~localizer_ready =>
         /\ socks' = socks
         /\ log' = Append(log, LogLine("Dropped", current_frame_index, <<>>, 0))
         /\ current_frame_index' = current_frame_index + 1
         /\ localizer_ready' = localizer_ready
         /\ session_id' = session_id
         /\ fetch_gps_sock' = fetch_gps_sock
         /\ Outstanding' = Outstanding]_vars

\* a tick has just dropped a frame while the exchange sent before it is
\* still open
C21_Witness ==
    /\ pc = "exit"
    /\ since_last = 0
    /\ log[Len(log)].kind = "Dropped"
    /\ log[Len(log)].index = current_frame_index - 1
    /\ ~localizer_ready
    /\ fetch_gps_sock \in Outstanding

\* C22: send step. A tick with Session set, Cursor < N and Readiness true at
\* which the fetch endpoint accepts the connection creates exactly one
\* socket, on which the FetchFrame request for catalog[Cursor] with the
\* current session id is sent and which becomes the fetch channel; Readiness
\* becomes false, the Cursor advances by one and the log is left as it is.
C22_SendStep ==
    [][FrameTick /\ localizer_ready /\ listening["fetch"] =>
         /\ FetchAttempt
         /\ SubSeq(socks', 1, Len(socks)) = socks
         /\ fetch_gps_sock' = Len(socks')
         /\ socks'[fetch_gps_sock'].connected
         /\ socks'[fetch_gps_sock'].open
         /\ socks'[fetch_gps_sock'].frame = current_frame_index
         /\ socks'[fetch_gps_sock'].sid = session_id
         /\ Outstanding' = {fetch_gps_sock'}
         /\ ~localizer_ready'
         /\ current_frame_index' = current_frame_index + 1
         /\ log' = log]_vars

\* a tick has just sent the request for the second frame on a fresh channel
C22_Witness ==
    /\ pc = "exit"
    /\ since_last = 0
    /\ ~localizer_ready
    /\ current_frame_index = 2
    /\ fetch_gps_sock = Len(socks)
    /\ socks[fetch_gps_sock].frame = 1
    /\ socks[fetch_gps_sock].sid = session_id
    /\ Outstanding = {fetch_gps_sock}

\* a poll that reads an Init response carrying a session id
SessionRead == session_id = <<>> /\ session_id' # <<>>

\* C23: handshake success step. The step that reads an Init response with a
\* session_id sets Session to that id, appends two log lines, one for
\* SessionStart and one for SessionReady, closes the init channel and makes
\* Readiness true.
C23_HandshakeSuccess ==
    [][SessionRead =>
         /\ session_id' = ParseSessionId(Recv(init_map_sock).text, <<>>)
         /\ Len(log') = Len(log) + 2
         /\ SubSeq(log', 1, Len(log)) = log
         /\ ~socks'[init_map_sock].open
         /\ localizer_ready']_vars

\* a step of run in which the connect for a FetchFrame request fails
FetchConnectFails == FetchAttempt /\ ~socks'[Len(socks')].connected

\* C24: FetchFrame connect failure. The step in which the connect for
\* catalog[Cursor] fails advances the Cursor by one, keeps Readiness true,
\* leaves no fetch channel open, logs nothing and does not end the loop; no
\* catalog index is ever given a second socket; and with Readiness true,
\* which no step between two ticks takes away, every tick that finds a frame
\* left tries to send the frame at the Cursor.
C24_FetchConnectFailure ==
    /\ [][FetchConnectFails =>
            /\ socks'[Len(socks')].frame = current_frame_index
            /\ current_frame_index' = current_frame_index + 1
            /\ localizer_ready /\ localizer_ready'
            /\ Outstanding' = {}
            /\ ~socks'[Len(socks')].open
            /\ log' = log
            /\ exit_reason' = "none"
            /\ Running']_vars
    /\ [](\A g, h \in FetchSocks : g < h => socks[g].frame < socks[h].frame)
    /\ [][~TickFires /\ localizer_ready => localizer_ready']_vars
    /\ [][FrameTick /\ localizer_ready =>
            FetchAttempt /\ socks'[Len(socks')].frame = current_frame_index]_vars

\* the connect for a frame failed and the tick after it tried the frame that
\* follows
C24_Witness ==
    \E h \in FetchSocks :
        /\ ~socks[h].connected
        /\ h + 1 \in FetchSocks
        /\ socks[h + 1].frame = socks[h].frame + 1

\* the poll of one loop iteration, and the sockets it changes
Poll == pc = "check" /\ pc' = "pace"
Touched == {h \in DOMAIN socks : socks'[h] # socks[h]}

\* C25: response poller. The poll of an iteration changes no socket but the
\* init channel while Session is unset, no socket but the fetch channel while
\* Session is set and Readiness is false, and no socket at all while Session
\* is set and Readiness is true; a response waiting on the channel whose
\* turn it is, is taken from it.
C25_Poller ==
    /\ [][Poll /\ session_id = <<>> =>
            /\ Touched \subseteq {init_map_sock}
            /\ Recv(init_map_sock).st = "data" => socks'[init_map_sock].rx = NoRx]_vars
    /\ [][Poll /\ session_id # <<>> /\ ~localizer_ready =>
            /\ Touched \subseteq {fetch_gps_sock}
            /\ Recv(fetch_gps_sock).st = "data" => socks'[fetch_gps_sock].rx = NoRx]_vars
    /\ [][Poll /\ session_id # <<>> /\ localizer_ready =>
            Touched = {} /\ log' = log /\ localizer_ready']_vars
    /\ [][Poll /\ session_id # <<>> => Touched \cap InitSocks = {}]_vars

\* the poll has just taken a response from the fetch channel, with Session
\* set
C25_Witness ==
    /\ pc = "pace"
    /\ session_id # <<>>
    /\ localizer_ready
    /\ log[Len(log)].kind = "Frame"
    /\ ~socks[fetch_gps_sock].open
    /\ socks[fetch_gps_sock].rx = NoRx
    /\ socks[fetch_gps_sock].frame = current_frame_index - 1

\* a poll that finds the response of the exchange in flight
ResponseWaiting ==
    session_id # <<>> /\ ~localizer_ready /\ Recv(fetch_gps_sock).st = "data"

\* the first poll that finds a response records it, whatever the time since
\* the last tick
RecordedAtOnce ==
    [][Poll /\ ResponseWaiting =>
         /\ Logs("Frame")
         /\ localizer_ready'
         /\ ~socks'[fetch_gps_sock].open]_vars

\* C26: prompt recording as stated. A response that is available is recorded
\* by the next poll, and a tick that fires with a frame due while the
\* response of the exchange in flight is available sends that frame.
C26_PromptRecording ==
    /\ RecordedAtOnce
    /\ [][FrameTick /\ Recv(fetch_gps_sock).st = "data" => FetchAttempt]_vars

\* C26, amended: a response that is available is recorded by the next poll;
\* Readiness gained at the poll is kept up to the tick decision, so a tick
\* that fires in the iteration whose poll found the response sends the frame
\* that is due; a tick that finds Readiness false drops the frame, also when
\* the response has arrived since the poll.
C26_PolledBeforeTick ==
    /\ RecordedAtOnce
    /\ [][~TickFires /\ localizer_ready => localizer_ready']_vars
    /\ [][FrameTick /\ localizer_ready => FetchAttempt /\ log' = log]_vars
    /\ [][FrameTick /\ ~localizer_ready => Logs("Dropped") /\ socks' = socks]_vars

\* the response to frame 0 was read before the tick at which frame 1 was due,
\* and that tick has just sent frame 1
C26_Witness ==
    /\ pc = "exit"
    /\ since_last = 0
    /\ current_frame_index = 2
    /\ log[Len(log)].kind = "Frame"
    /\ LogKind("Dropped") = {}
    /\ Cardinality(SentFetch) = 2
    /\ Outstanding = {fetch_gps_sock}
    /\ socks[fetch_gps_sock].frame = 1

\* a step that issues a request or drops a frame, or moves the cursor
Decision ==
    \/ Len(socks') # Len(socks)
    \/ Logs("Dropped")
    \/ current_frame_index' # current_frame_index

\* C27: pacing. A step creates at most one socket, and does at most one of:
\* create an init socket, create a fetch socket, log a drop; the Cursor moves
\* by one at most in a step; sockets are created, drops logged and the
\* Cursor moved at ticks only; and a tick fires only when at least
\* TickPeriod has passed since the tick before it.
C27_Pacing ==
    /\ [][/\ Len(socks') \in {Len(socks), Len(socks) + 1}
          /\ ~(InitAttempt /\ Logs("Dropped"))
          /\ ~(FetchAttempt /\ Logs("Dropped"))
          /\ Len(log') <= Len(log) + 1
          /\ current_frame_index' \in {current_frame_index, current_frame_index + 1}]_vars
    /\ [][Decision => TickFires]_vars
    /\ [][TickFires /\ started /\ elapsed' <= WatchdogLimit =>
            since_last + (elapsed' - elapsed) >= TickPeriod]_vars

\* the third decision has just been taken: an Init request and two frames
C27_Witness ==
    /\ pc = "exit"
    /\ since_last = 0
    /\ current_frame_index = 2
    /\ InitSocks # {}
    /\ elapsed >= 2 * TickPeriod
    /\ elapsed <= WatchdogLimit

\* C28: append-only log. The line written when the file is truncated at
\* startup is the first line of the log and occurs once; every step keeps
\* the lines the log has, in place, and adds lines at its end only.
C28_AppendOnly ==
    /\ [](log # <<>> /\ LogKind("Started") = {1})
    /\ [][/\ Len(log') >= Len(log)
          /\ SubSeq(log', 1, Len(log)) = log]_vars

\* the log has grown by a session line, a result and a drop after the start
\* line
C28_Witness ==
    /\ Len(log) >= 4
    /\ log[1].kind = "Started"
    /\ LogKind("Session") # {}
    /\ LogKind("Frame") # {}
    /\ LogKind("Dropped") # {}

\* C29: readiness invariant. As long as the DeviceReader object lives,
\* Readiness is true exactly when Session is set and no FetchFrame exchange
\* is outstanding; it is false while Session is unset; only a step that
\* sends a FetchFrame request on a connected socket makes it false, and only
\* the step that reads the session id and the step that reads a FetchFrame
\* response make it true.
C29_Readiness ==
    /\ [](pc # "exited" =>
            (localizer_ready <=> (session_id # <<>> /\ Outstanding = {})))
    /\ [](session_id = <<>> => ~localizer_ready)
    /\ [][localizer_ready /\ ~localizer_ready' =>
            /\ FrameTick
            /\ FetchAttempt
            /\ socks'[Len(socks')].connected]_vars
    /\ [][~localizer_ready /\ localizer_ready' =>
            \/ SessionRead
            \/ (Poll /\ ResponseWaiting /\ Logs("Frame"))]_vars

\* a second exchange is outstanding after the first was answered: Readiness
\* went true, false, true and false again
C29_Witness ==
    /\ session_id # <<>>
    /\ ~localizer_ready
    /\ Outstanding = {fetch_gps_sock}
    /\ \E h \in SentFetch : ~socks[h].open
    /\ LogKind("Frame") # {}

\* C30: no frame before the session. While Session is unset no FetchFrame
\* socket exists and no FrameResult or FrameDropped line is in the log; the
\* log holds at most one session line, it names the session id, and it comes
\* before every frame line; every FetchFrame request that was sent carries
\* that session id.
C30_SessionFirst ==
    /\ session_id = <<>> =>
         /\ FetchSocks = {}
         /\ LogKind("Frame") \cup LogKind("Dropped") = {}
         /\ LogKind("Session") = {}
    /\ Cardinality(LogKind("Session")) <= 1
    /\ \A j \in LogKind("Session") : log[j].id = session_id
    /\ \A k \in LogKind("Frame") \cup LogKind("Dropped") :
         \E j \in LogKind("Session") : j < k
    /\ \A h \in SentFetch : socks[h].sid # <<>> /\ socks[h].sid = session_id

\* requests were sent and a result and a drop were logged, all after the one
\* session line
C30_Witness ==
    /\ Cardinality(LogKind("Session")) = 1
    /\ Cardinality(SentFetch) >= 2
    /\ LogKind("Frame") # {}
    /\ LogKind("Dropped") # {}

\* C31: unanswered exchange. A poll that finds no data on the fetch channel
\* (nothing yet, the end of the stream, or a receive error) changes nothing:
\* the exchange stays outstanding and Readiness false; as long as an
\* exchange is outstanding every tick with a frame left drops that frame and
\* no FetchFrame socket is created; and a run that has ended with an
\* exchange still outstanding has ended through the watchdog, not in clean
\* drain.
C31_UnansweredExchange ==
    /\ [][Poll /\ session_id # <<>> /\ ~localizer_ready
               /\ Recv(fetch_gps_sock).st \in {"none", "eof", "err"} =>
            /\ ~localizer_ready'
            /\ socks' = socks
            /\ log' = log]_vars
    /\ [](pc # "exited" /\ Outstanding # {} => ~localizer_ready /\ ~CleanDrain)
    /\ [][Outstanding # {} /\ FrameTick =>
            /\ Logs("Dropped")
            /\ log'[Len(log')].index = current_frame_index
            /\ socks' = socks]_vars
    /\ [][Outstanding # {} => ~FetchAttempt]_vars
    /\ [](pc = "done" /\ Outstanding # {} => exit_reason = "watchdog")

\* the peer closed or reset the connection of the first exchange without
\* answering: the other frames were dropped and the watchdog has ended the
\* loop
C31_Witness ==
    /\ pc = "done"
    /\ exit_reason = "watchdog"
    /\ Len(stream_files) = MaxFrames
    /\ current_frame_index = Len(stream_files)
    /\ SentFetch = {fetch_gps_sock}
    /\ socks[fetch_gps_sock].frame = 0
    /\ socks[fetch_gps_sock].rx.st \in {"eof", "err"}
    /\ Cardinality(LogKind("Dropped")) = MaxFrames - 1

\* the Init requests that were sent: the init sockets whose connect succeeded
SentInit == {h \in InitSocks : socks[h].connected}

\* C32: no Init retry after a successful connect. A socket for an Init
\* request is created only when every Init connect so far has failed, so at
\* most one Init request is ever sent; a poll that obtains no session id
\* from the init channel (nothing yet, the end of the stream, a receive error
\* or a response without a usable session_id) leaves Session unset, the
\* request marked as made and the channel open; and a run that has ended
\* with Session unset has ended through the watchdog.
C32_NoRetryAfterConnect ==
    /\ [][InitAttempt => SentInit = {}]_vars
    /\ [](Cardinality(SentInit) <= 1)
    /\ [][Poll /\ SentInit # {} /\ session_id = <<>>
               /\ (\/ Recv(init_map_sock).st # "data"
                   \/ Unusable(Recv(init_map_sock).text)) =>
            /\ session_id' = <<>>
            /\ init_map_requested /\ init_map_requested'
            /\ init_map_sock' = init_map_sock
            /\ init_map_sock \in Connected("init")'
            /\ log' = log]_vars
    /\ [](pc = "done" /\ session_id = <<>> => exit_reason = "watchdog")

\* the peer closed or reset the connection of the one Init request that was
\* sent, after a connect that failed: no session, no further request, and
\* the watchdog has ended the loop
C32_Witness ==
    /\ pc = "done"
    /\ exit_reason = "watchdog"
    /\ session_id = <<>>
    /\ Cardinality(SentInit) = 1
    /\ \E h \in InitSocks : ~socks[h].connected
    /\ init_map_sock = Len(socks)
    /\ socks[init_map_sock].rx.st \in {"eof", "err"}

\* the FrameResult lines that record the response about the given image
ResultsOf(name) == {k \in LogKind("Frame") : log[k].response = name}

\* C33: result counts. No exchange has more than one FrameResult line; the
\* FrameResult lines are no more than the FetchFrame requests sent; and
\* FrameResult and FrameDropped lines together are no more than the Cursor,
\* which is no more than the catalog length.
C33_ResultCounts ==
    /\ \A h \in SentFetch :
         Cardinality(ResultsOf(stream_files[socks[h].frame + 1])) <= 1
    /\ Cardinality(LogKind("Frame")) <= Cardinality(SentFetch)
    /\ Cardinality(LogKind("Frame")) + Cardinality(LogKind("Dropped"))
         <= current_frame_index
    /\ current_frame_index <= Len(stream_files)

\* a full catalog of which one frame was answered, one dropped and one lost
\* to a failed connect: two lines for a cursor of three
C33_Witness ==
    /\ current_frame_index = MaxFrames
    /\ Cardinality(LogKind("Frame")) = 1
    /\ Cardinality(LogKind("Dropped")) = 1
    /\ \E h \in FetchSocks : ~socks[h].connected

\* C34: drops only under backpressure. Every step that appends a
\* FrameDropped line starts in a state where Readiness is false and the
\* exchange sent last is still outstanding, and the line carries an index
\* above the index of that exchange; so index 0 is never dropped.
C34_DropsUnderBackpressure ==
    /\ [][Logs("Dropped") =>
            /\ ~localizer_ready
            /\ fetch_gps_sock \in Outstanding
            /\ log'[Len(log')].index > socks[fetch_gps_sock].frame]_vars
    /\ [](\A j \in LogKind("Dropped") : log[j].index >= 1)

\* a frame was dropped after an earlier response had restored Readiness and
\* another request had been sent
C34_Witness ==
    \E k \in LogKind("Frame"), j \in LogKind("Dropped") :
        /\ k < j
        /\ Cardinality(SentFetch) >= 2
====
